---------------------------- MODULE Spec2Model ----------------------------
(***************************************************************************)
(* CSP_VRPTW (src/VRPTW3/main.py): a constraint-satisfaction solver for    *)
(* the vehicle routing problem with time windows.  The model follows the   *)
(* solver object's fields (customers, vehicle_capacity, num_vehicles,      *)
(* domains, routes, assignments) through one call of solve(): the cap      *)
(* loop, the arc-consistency worklist, and the recursion of _backtrack,    *)
(* whose call frames are kept on an explicit stack.                        *)
(***************************************************************************)
EXTENDS Integers, Sequences, FiniteSets, TLC

(* ------------------------------ bounds -------------------------------- *)

\* Largest number of non-depot customers of an instance with time windows.
MaxCustomers == 2

\* Largest number of non-depot customers of an instance whose windows are
\* all wide open (capacity is the only constraint that can bind).
MaxCapCustomers == 4

\* Largest fleet size (num_vehicles).
MaxVehicles == 3

\* The values the inputs are drawn from.
Coords == {1, 2}
Demands == {1, 2}
CapDemands == {1, 2, 3}
Capacities == {2, 3}
WideWindow == [ready_time |-> 0, due_time |-> 12, service_time |-> 0]
Windows ==
    { WideWindow,
      [ready_time |-> 0, due_time |-> 1, service_time |-> 1],
      [ready_time |-> 2, due_time |-> 2, service_time |-> 1],
      [ready_time |-> 0, due_time |-> 3, service_time |-> 0] }

(* ------------------------------- state -------------------------------- *)

VARIABLES
    customers,         \* self.customers: index 0 is the depot
    vehicle_capacity,  \* self.vehicle_capacity
    num_vehicles,      \* self.num_vehicles
    domains,           \* self.domains: variable -> list of vehicles
    routes,            \* self.routes: vehicle -> list of customers
    assignments,       \* self.assignments: variable -> vehicle
    cap_iter,          \* solve(): the caps the loop has still to try
    vehicle_limit,     \* solve(): the loop variable of the cap loop
    queue,             \* _arc_consistency(): the worklist
    stack,             \* the frames of the active _backtrack() calls
    pc,                \* where solve() stands
    returned,          \* "pending", or what solve() returned: "solution" / "None"
    solution,          \* the route table solve() returned
    attempts,          \* history: one record per cap the loop has tried
    earlier_results    \* the caller's: what earlier calls of solve() returned

vars == << customers, vehicle_capacity, num_vehicles, domains, routes,
           assignments, cap_iter, vehicle_limit, queue, stack, pc, returned,
           solution, attempts, earlier_results >>

(* --------------------------- pure helpers ----------------------------- *)

\* range(n) as a list: 0, 1, ..., n-1
Range(n) == [i \in 1..n |-> i - 1]

\* The elements of a list.
Elems(s) == { s[i] : i \in 1..Len(s) }

\* math.sqrt on the perfect squares the bounded coordinates produce.
Sqrt(n) == CHOOSE r \in 0..n : r * r = n

euclidean_distance(loc1, loc2) ==
    Sqrt((loc1[1] - loc2[1]) * (loc1[1] - loc2[1])
         + (loc1[2] - loc2[2]) * (loc1[2] - loc2[2]))

num_customers == Cardinality(DOMAIN customers)

depot == 0

\* self.variables, as a set and as the list the code iterates.
variables == 1..(num_customers - 1)

distance_matrix(i, j) ==
    euclidean_distance(<< customers[i].x, customers[i].y >>,
                       << customers[j].x, customers[j].y >>)

Max(a, b) == IF a >= b THEN a ELSE b

RECURSIVE SumDemand(_)
SumDemand(route) ==
    IF route = << >> THEN 0
    ELSE customers[Head(route)].demand + SumDemand(Tail(route))

\* Mutant of ValidateFrom: the leg from the depot to the first stop is
\* not counted.
RECURSIVE ValidateFromNoDepotLeg(_, _, _)
ValidateFromNoDepotLeg(route, i, time) ==
    IF i > Len(route) THEN TRUE
    ELSE LET cust == route[i]
             travel_time == IF i > 1 THEN distance_matrix(route[i - 1], cust)
                            ELSE 0
             start == Max(time + travel_time, customers[cust].ready_time)
         IN  IF start > customers[cust].due_time THEN FALSE
             ELSE ValidateFromNoDepotLeg(route, i + 1,
                                         start + customers[cust].service_time)

\* Mutant of ValidateFrom: the service time is never added to the clock.
RECURSIVE ValidateFromNoService(_, _, _)
ValidateFromNoService(route, i, time) ==
    IF i > Len(route) THEN TRUE
    ELSE LET cust == route[i]
             travel_time == IF i > 1 THEN distance_matrix(route[i - 1], cust)
                            ELSE distance_matrix(depot, cust)
             start == Max(time + travel_time, customers[cust].ready_time)
         IN  IF start > customers[cust].due_time THEN FALSE
             ELSE ValidateFromNoService(route, i + 1, start)

\* The loop of _validate_time_windows from position i with the clock at time.
RECURSIVE ValidateFrom(_, _, _)
ValidateFrom(route, i, time) ==
    IF i > Len(route) THEN TRUE
    ELSE LET cust == route[i]
             travel_time == IF i > 1 THEN distance_matrix(route[i - 1], cust)
                            ELSE distance_matrix(depot, cust)
             arrival == time + travel_time
             start == Max(arrival, customers[cust].ready_time)
         IN  IF start > customers[cust].due_time THEN FALSE
             ELSE ValidateFrom(route, i + 1, start + customers[cust].service_time)

_validate_time_windows(route) == ValidateFrom(route, 1, 0)

\* variable in [cust for r in table.values() for cust in r]
InSomeRoute(table, variable) ==
    \E v \in DOMAIN table : variable \in Elems(table[v])

\* Mutant of IsConsistentIn: the capacity test is missing.
IsConsistentNoCapacity(table, variable, value, route) ==
    IF InSomeRoute(table, variable) THEN FALSE
    ELSE _validate_time_windows(Append(route, variable))

\* Mutant of IsConsistentIn: only the target route is searched for the
\* customer.
IsConsistentTargetOnly(table, variable, value, route) ==
    IF variable \in Elems(route) THEN FALSE
    ELSE IF SumDemand(route) + customers[variable].demand > vehicle_capacity
         THEN FALSE
         ELSE _validate_time_windows(Append(route, variable))

\* is_consistent evaluated against the route table `table`.
IsConsistentIn(table, variable, value, route) ==
    IF InSomeRoute(table, variable) THEN FALSE
    ELSE IF SumDemand(route) + customers[variable].demand > vehicle_capacity
         THEN FALSE
         ELSE _validate_time_windows(Append(route, variable))

is_consistent(variable, value, route) ==
    IsConsistentIn(routes, variable, value, route)


(* ------------------------- forward checking --------------------------- *)

\* Mutant of FcFilter: nothing is filtered out.
FcFilterKeepAll(doms, neighbor) == doms[neighbor]

\* The list comprehension of _forward_checking for one neighbor.
FcFilter(doms, neighbor) ==
    SelectSeq(doms[neighbor],
              LAMBDA v : is_consistent(neighbor, v, routes[v]))

\* Mutant of FcSweep: on failure the pruned domains are left in place.
RECURSIVE FcSweepNoRestore(_, _, _)
FcSweepNoRestore(doms, neighbor, original_domains) ==
    IF neighbor > num_customers - 1
    THEN [ok |-> TRUE, domains |-> doms]
    ELSE IF neighbor \in DOMAIN assignments
         THEN FcSweepNoRestore(doms, neighbor + 1, original_domains)
         ELSE LET pruned == [doms EXCEPT ![neighbor] = FcFilter(doms, neighbor)]
              IN  IF pruned[neighbor] = << >>
                  THEN [ok |-> FALSE, domains |-> pruned]
                  ELSE FcSweepNoRestore(pruned, neighbor + 1, original_domains)

\* The sweep of _forward_checking from `neighbor` on, over the domains
\* `doms` pruned so far; original_domains is the deep copy taken on entry.
RECURSIVE FcSweep(_, _, _)
FcSweep(doms, neighbor, original_domains) ==
    IF neighbor > num_customers - 1
    THEN [ok |-> TRUE, domains |-> doms]
    ELSE IF neighbor \in DOMAIN assignments
         THEN FcSweep(doms, neighbor + 1, original_domains)
         ELSE LET pruned == [doms EXCEPT ![neighbor] = FcFilter(doms, neighbor)]
              IN  IF pruned[neighbor] = << >>
                  THEN [ok |-> FALSE, domains |-> original_domains]
                  ELSE FcSweep(pruned, neighbor + 1, original_domains)

\* _forward_checking(variable, value): its return value and the domains
\* it leaves in self.domains.
_forward_checking(variable, value) == FcSweep(domains, 1, domains)

(* -------------------------- arc consistency --------------------------- *)

\* The list _arc_consistency starts from: (var, neighbor), var-major.
RECURSIVE PairsFrom(_, _)
PairsFrom(var, neighbor) ==
    IF var > num_customers - 1 THEN << >>
    ELSE IF neighbor > num_customers - 1 THEN PairsFrom(var + 1, 1)
         ELSE IF var # neighbor
              THEN << << var, neighbor >> >> \o PairsFrom(var, neighbor + 1)
              ELSE PairsFrom(var, neighbor + 1)

InitialQueue == PairsFrom(1, 1)

\* Mutant of _revise: one unsupported value is removed per call.
ReviseOneValue(x, y) ==
    IF \E i \in 1..Len(domains[y]) :
           is_consistent(x, domains[y][i], routes[domains[y][i]])
    THEN domains[x]
    ELSE Tail(domains[x])

\* _revise(x, y): the domain it leaves for x.  The generator of any()
\* rebinds `value` to the values of domains[y].
_revise(x, y) ==
    SelectSeq(domains[x],
              LAMBDA value :
                  \E i \in 1..Len(domains[y]) :
                      is_consistent(x, domains[y][i], routes[domains[y][i]]))

\* The pairs (z, x) appended after a revision of x against y.
RECURSIVE Requeue(_, _, _)
Requeue(z, x, y) ==
    IF z > num_customers - 1 THEN << >>
    ELSE IF z # x /\ z # y
         THEN << << z, x >> >> \o Requeue(z + 1, x, y)
         ELSE Requeue(z + 1, x, y)

(* ----------------------------- heuristics ----------------------------- *)

Unassigned == { v \in variables : v \notin DOMAIN assignments }

\* Mutant of _select_unassigned_variable: the first unassigned variable.
SelectFirstUnassigned ==
    CHOOSE var \in Unassigned : \A w \in Unassigned : var <= w

\* min(unassigned, key=len(domains[var])): the first minimum in list order.
_select_unassigned_variable ==
    CHOOSE var \in Unassigned :
        \A w \in Unassigned :
            \/ Len(domains[var]) < Len(domains[w])
            \/ (Len(domains[var]) = Len(domains[w]) /\ var <= w)

\* Mutant of _least_constraining_value: every value gets the same key.
LeastConstrainingConstant(variable, value) == 0

_least_constraining_value(variable, value) ==
    Cardinality({ neighbor \in variables :
                    /\ neighbor \notin DOMAIN assignments
                    /\ value \in Elems(domains[neighbor]) })

\* Insert x into the key-sorted list s behind every element whose key is
\* not larger (sorted() is stable).
RECURSIVE InsertByKey(_, _, _)
InsertByKey(s, x, variable) ==
    IF s = << >> THEN << x >>
    ELSE IF _least_constraining_value(variable, Head(s))
              <= _least_constraining_value(variable, x)
         THEN << Head(s) >> \o InsertByKey(Tail(s), x, variable)
         ELSE << x >> \o s

\* sorted(values, key=lambda v: self._least_constraining_value(variable, v))
RECURSIVE SortedByLCV(_, _)
SortedByLCV(values, variable) ==
    IF values = << >> THEN << >>
    ELSE InsertByKey(SortedByLCV(SubSeq(values, 1, Len(values) - 1), variable),
                     values[Len(values)], variable)


(* ------------------------------ instances ----------------------------- *)

Customer(x, demand, window) ==
    [x |-> x, y |-> 0, demand |-> demand,
     ready_time |-> window.ready_time, due_time |-> window.due_time,
     service_time |-> window.service_time]

\* Index 0: the depot, at the origin.
Depot == [x |-> 0, y |-> 0, demand |-> 0,
          ready_time |-> 0, due_time |-> 12, service_time |-> 0]

TWCustomers ==
    { Customer(x, d, w) : x \in Coords, d \in Demands, w \in Windows }

\* Customers whose window cannot bind: only the demand differs.
CapCustomers == { Customer(1, d, WideWindow) : d \in CapDemands }

\* Five customers of which the first three end up on three routes of their
\* own (each is too late behind another one); the last two are drawn from
\* customers that fit behind some of them and not behind others.
SpreadInstances ==
    { << Customer(1, 2, [ready_time |-> 0, due_time |-> 1, service_time |-> 1]),
         Customer(1, 1, [ready_time |-> 0, due_time |-> 1, service_time |-> 1]),
         Customer(2, 1, [ready_time |-> 2, due_time |-> 2, service_time |-> 1]),
         Customer(x, 2, WideWindow),
         Customer(1, 1, w) >> : x \in Coords, w \in Windows }

Instances ==
    { [i \in 0..n |-> IF i = 0 THEN Depot ELSE c[i]] :
        n \in 0..MaxCustomers, c \in [1..MaxCustomers -> TWCustomers] }
    \cup
    { [i \in 0..n |-> IF i = 0 THEN Depot ELSE c[i]] :
        n \in 0..MaxCapCustomers, c \in [1..MaxCapCustomers -> CapCustomers] }
    \cup
    { [i \in 0..Len(c) |-> IF i = 0 THEN Depot ELSE c[i]] :
        c \in SpreadInstances }

\* {v: [] for v in range(k)}
EmptyRoutes(k) == [v \in 0..(k - 1) |-> << >>]

\* {v: list(range(k)) for v in self.variables}
FullDomains(k) == [v \in variables |-> Range(k)]

\* The empty dict.
EmptyDict == << >>

\* Mutant of ResetRoutes: the routes of the previous attempt are kept.
RoutesNotReset(k) ==
    [v \in 0..(k - 1) |-> IF v \in DOMAIN routes THEN routes[v] ELSE << >>]

\* solve(): self.routes = {v: [] for v in range(vehicle_limit)}
ResetRoutes(k) == EmptyRoutes(k)

\* Mutant of CapSequence: the caps are tried from the largest down.
CapSequenceDescending == [i \in 1..num_vehicles |-> num_vehicles + 1 - i]

\* range(1, self.num_vehicles + 1), as the list of caps in loop order.
CapSequence == [i \in 1..num_vehicles |-> i]

(* ------------------------------- actions ------------------------------ *)

\* CSP_VRPTW.__init__ on an instance, and solve() about to start.
Init ==
    /\ customers \in Instances
    /\ vehicle_capacity \in Capacities
    /\ num_vehicles \in 0..MaxVehicles
    /\ domains = FullDomains(num_vehicles)
    /\ routes = EmptyRoutes(num_vehicles)
    /\ assignments = EmptyDict
    /\ cap_iter = CapSequence
    /\ vehicle_limit = 0
    /\ queue = << >>
    /\ stack = << >>
    /\ pc = "solve"
    /\ returned = "pending"
    /\ solution = EmptyDict
    /\ attempts = << >>
    /\ earlier_results = << >>

Top == stack[Len(stack)]

SetTop(frame) == [stack EXCEPT ![Len(stack)] = frame]

SetLast(field, val) == [attempts EXCEPT ![Len(attempts)][field] = val]

\* solve(): the next iteration of the cap loop resets the state, and
\* _arc_consistency builds its worklist.
SolveNextCap ==
    /\ pc = "solve"
    /\ cap_iter # << >>
    /\ vehicle_limit' = Head(cap_iter)
    /\ cap_iter' = Tail(cap_iter)
    /\ domains' = FullDomains(Head(cap_iter))
    /\ routes' = ResetRoutes(Head(cap_iter))
    /\ assignments' = EmptyDict
    /\ queue' = InitialQueue
    /\ stack' = << >>
    /\ pc' = "arc"
    /\ attempts' = Append(attempts, [cap |-> Head(cap_iter),
                                     ac |-> "running", search |-> "not run"])
    /\ UNCHANGED << customers, vehicle_capacity, num_vehicles, returned,
                    solution, earlier_results >>

\* solve(): the cap loop is exhausted.
SolveNoSolution ==
    /\ pc = "solve"
    /\ cap_iter = << >>
    /\ returned' = "None"
    /\ pc' = "done"
    /\ UNCHANGED << customers, vehicle_capacity, num_vehicles, domains,
                    routes, assignments, cap_iter, vehicle_limit, queue,
                    stack, solution, attempts, earlier_results >>

\* _arc_consistency(): one iteration of the while loop.
ArcRevise ==
    /\ pc = "arc"
    /\ queue # << >>
    /\ LET x == Head(queue)[1]
           y == Head(queue)[2]
           revised_domain == _revise(x, y)
           revised == revised_domain # domains[x]
       IN  /\ domains' = [domains EXCEPT ![x] = revised_domain]
           /\ IF revised /\ revised_domain = << >>
              THEN /\ pc' = "solve"
                   /\ queue' = << >>
                   /\ attempts' = SetLast("ac", "inconsistent")
              ELSE /\ pc' = "arc"
                   /\ queue' = IF revised THEN Tail(queue) \o Requeue(1, x, y)
                               ELSE Tail(queue)
                   /\ UNCHANGED attempts
    /\ UNCHANGED << customers, vehicle_capacity, num_vehicles, routes,
                    assignments, cap_iter, vehicle_limit, stack, returned,
                    solution, earlier_results >>

\* _arc_consistency() returns True; solve() calls backtracking_search().
ArcConsistent ==
    /\ pc = "arc"
    /\ queue = << >>
    /\ pc' = "bt"
    /\ attempts' = [attempts EXCEPT ![Len(attempts)] =
                        [@ EXCEPT !.ac = "consistent", !.search = "running"]]
    /\ UNCHANGED << customers, vehicle_capacity, num_vehicles, domains,
                    routes, assignments, cap_iter, vehicle_limit, queue,
                    stack, returned, solution, earlier_results >>

\* Mutant of Complete: the test is off by one.
CompleteOffByOne == Cardinality(DOMAIN assignments) >= Cardinality(variables) - 1

\* len(self.assignments) == len(self.variables)
Complete == Cardinality(DOMAIN assignments) = Cardinality(variables)

\* _backtrack(): the assignment is complete; self.routes is handed up every
\* frame to solve(), which returns it when it is truthy.
BtComplete ==
    /\ pc = "bt"
    /\ Complete
    /\ stack' = << >>
    /\ IF DOMAIN routes # {}
       THEN /\ returned' = "solution"
            /\ solution' = routes
            /\ pc' = "done"
            /\ attempts' = SetLast("search", "found")
       ELSE /\ pc' = "solve"
            /\ attempts' = SetLast("search", "failed")
            /\ UNCHANGED << returned, solution >>
    /\ UNCHANGED << customers, vehicle_capacity, num_vehicles, domains,
                    routes, assignments, cap_iter, vehicle_limit, queue,
                    earlier_results >>

\* _backtrack(): pick the variable and the order of its values.
BtSelect ==
    /\ pc = "bt"
    /\ ~Complete
    /\ LET variable == _select_unassigned_variable
       IN  stack' = Append(stack,
                [variable |-> variable,
                 values |-> SortedByLCV(domains[variable], variable),
                 i |-> 1,
                 previous_routes |-> EmptyDict,
                 fc |-> "none",
                 last |-> "none",
                 tested_routes |-> EmptyDict,
                 original_domains |-> EmptyDict])
    /\ pc' = "loop"
    /\ UNCHANGED << customers, vehicle_capacity, num_vehicles, domains,
                    routes, assignments, cap_iter, vehicle_limit, queue,
                    returned, solution, attempts, earlier_results >>

\* The value the loop of the top frame stands at.
Value == Top.values[Top.i]

\* Mutant of Advance: the loop stays at the same value.
Stay(frame, last) == [frame EXCEPT !.last = last]

\* The for loop of _backtrack goes on to its next value.
Advance(frame, last) == [frame EXCEPT !.i = @ + 1, !.last = last]

\* _backtrack(): is_consistent rejects the value; on to the next one.
BtReject ==
    /\ pc = "loop"
    /\ Top.i <= Len(Top.values)
    /\ ~is_consistent(Top.variable, Value, routes[Value])
    /\ stack' = SetTop([Advance(Top, "rejected") EXCEPT
                          !.tested_routes = routes])
    /\ UNCHANGED << customers, vehicle_capacity, num_vehicles, domains,
                    routes, assignments, cap_iter, vehicle_limit, queue, pc,
                    returned, solution, attempts, earlier_results >>

\* Mutant of Committed: the customer is put at the front of the route.
CommittedAtFront(table, value, variable) ==
    [table EXCEPT ![value] = << variable >> \o @]

\* The route table after self.routes[value].append(variable).
Committed(table, value, variable) ==
    [table EXCEPT ![value] = Append(@, variable)]

\* The route table _backtrack keeps in previous_routes to restore from:
\* the deep copy is taken after the append.
Snapshot(table, value, variable) == Committed(table, value, variable)

\* _backtrack(): the value is consistent: commit it and save the routes.
BtCommit ==
    /\ pc = "loop"
    /\ Top.i <= Len(Top.values)
    /\ is_consistent(Top.variable, Value, routes[Value])
    /\ assignments' = [v \in DOMAIN assignments \cup {Top.variable} |->
                          IF v = Top.variable THEN Value ELSE assignments[v]]
    /\ routes' = Committed(routes, Value, Top.variable)
    /\ stack' = SetTop([Top EXCEPT
                          !.previous_routes = Snapshot(routes, Value, Top.variable),
                          !.tested_routes = routes,
                          !.fc = "none"])
    /\ pc' = "fc"
    /\ UNCHANGED << customers, vehicle_capacity, num_vehicles, domains,
                    cap_iter, vehicle_limit, queue, returned, solution,
                    attempts, earlier_results >>

\* _backtrack(): the call of _forward_checking; on success the recursive call.
BtForwardCheck ==
    /\ pc = "fc"
    /\ LET r == _forward_checking(Top.variable, Value)
       IN  /\ domains' = r.domains
           /\ stack' = SetTop([Top EXCEPT
                                 !.fc = IF r.ok THEN "ok" ELSE "failed",
                                 !.original_domains = domains])
           /\ pc' = IF r.ok THEN "bt" ELSE "undo"
    /\ UNCHANGED << customers, vehicle_capacity, num_vehicles, routes,
                    assignments, cap_iter, vehicle_limit, queue, returned,
                    solution, attempts, earlier_results >>

\* The dict without the key.
Pop(dict, key) == [v \in DOMAIN dict \ {key} |-> dict[v]]

\* The domains _backtrack leaves when it undoes a commitment: it assigns
\* self.assignments and self.routes only.
UndoDomains(current, frame) == current

\* _backtrack(): undo the assignment and restore the routes.
BtUndo ==
    /\ pc = "undo"
    /\ assignments' = Pop(assignments, Top.variable)
    /\ routes' = Top.previous_routes
    /\ domains' = UndoDomains(domains, Top)
    /\ stack' = SetTop(Advance(Top, "undone"))
    /\ pc' = "loop"
    /\ UNCHANGED << customers, vehicle_capacity, num_vehicles, cap_iter,
                    vehicle_limit, queue, returned, solution, attempts,
                    earlier_results >>

\* _backtrack(): no value is left: return None, to the calling frame or,
\* from the root, to solve().
BtExhausted ==
    /\ pc = "loop"
    /\ Top.i > Len(Top.values)
    /\ stack' = SubSeq(stack, 1, Len(stack) - 1)
    /\ IF Len(stack) = 1
       THEN /\ pc' = "solve"
            /\ attempts' = SetLast("search", "failed")
       ELSE /\ pc' = "undo"
            /\ UNCHANGED attempts
    /\ UNCHANGED << customers, vehicle_capacity, num_vehicles, domains,
                    routes, assignments, cap_iter, vehicle_limit, queue,
                    returned, solution, earlier_results >>

Next ==
    \/ SolveNextCap
    \/ SolveNoSolution
    \/ ArcRevise
    \/ ArcConsistent
    \/ BtComplete
    \/ BtSelect
    \/ BtReject
    \/ BtCommit
    \/ BtForwardCheck
    \/ BtUndo
    \/ BtExhausted

Spec == Init /\ [][Next]_vars

\* solve() runs on: the program is sequential, a step that can be taken is
\* taken.
SpecFair == Init /\ [][Next]_vars /\ WF_vars(Next)

\* The caller's start of another call of solve(), with the result of the
\* first call kept aside.
CallAgain(solver) ==
    /\ pc = "done"
    /\ earlier_results = << >>
    /\ earlier_results' = << [solver |-> solver, returned |-> returned,
                              solution |-> solution] >>
    /\ cap_iter' = CapSequence
    /\ vehicle_limit' = 0
    /\ queue' = << >>
    /\ stack' = << >>
    /\ pc' = "solve"
    /\ returned' = "pending"
    /\ solution' = EmptyDict
    /\ attempts' = << >>
    /\ UNCHANGED << customers, vehicle_capacity, num_vehicles >>

\* solve() is called again on the same solver object: the fields are as the
\* first call left them.
SolveAgain ==
    /\ CallAgain("same")
    /\ UNCHANGED << domains, routes, assignments >>

\* solve() is called on a new solver built from the same customers, capacity
\* and fleet size: __init__ sets the fields.
SolveFresh ==
    /\ CallAgain("fresh")
    /\ domains' = FullDomains(num_vehicles)
    /\ routes' = EmptyRoutes(num_vehicles)
    /\ assignments' = EmptyDict

NextTwice == Next \/ SolveAgain \/ SolveFresh

\* solve() called once, and then once more, on the same object or on a
\* fresh one.
SpecTwice == Init /\ [][NextTwice]_vars

\* The legs of a route between consecutive customers, from stop i on.
RECURSIVE LegsFrom(_, _)
LegsFrom(route, i) ==
    IF i > Len(route) - 1 THEN 0
    ELSE distance_matrix(route[i], route[i + 1]) + LegsFrom(route, i + 1)

RouteDistanceNoReturn(route) ==
    distance_matrix(depot, route[1]) + LegsFrom(route, 1)

\* calculate_total_distance(): dist of one non-empty route.
RouteDistance(route) ==
    distance_matrix(depot, route[1]) + LegsFrom(route, 1)
        + distance_matrix(route[Len(route)], depot)

\* calculate_total_distance(): the loop over self.routes.items(), from
\* vehicle v on; an empty route is skipped.
RECURSIVE TotalFrom(_)
TotalFrom(v) ==
    IF v \notin DOMAIN routes THEN 0
    ELSE (IF routes[v] = << >> THEN 0 ELSE RouteDistance(routes[v]))
             + TotalFrom(v + 1)

calculate_total_distance == TotalFrom(0)

\* format_solution(): "Route {vehicle + 1} : 0 <stops> 0" for each non-empty
\* route, from vehicle v on; a line is its route number and its stops.
RECURSIVE FormattedFrom(_)
FormattedFrom(v) ==
    IF v \notin DOMAIN routes THEN << >>
    ELSE (IF routes[v] = << >> THEN << >>
          ELSE << [route |-> v + 1, stops |-> << 0 >> \o routes[v] \o << 0 >>] >>)
             \o FormattedFrom(v + 1)

format_solution ==
    [routes |-> FormattedFrom(0),
     num_vehicles |-> Len(FormattedFrom(0)),
     total_distance |-> calculate_total_distance]


(* ------------------------------- claims ------------------------------- *)

\* The places of the route table `table` that hold customer c.
Places(table, c) ==
    UNION { { << v, i >> : i \in { j \in 1..Len(table[v]) : table[v][j] = c } } :
            v \in DOMAIN table }

NonEmptyRoutes(table) == { v \in DOMAIN table : table[v] # << >> }

\* C1: whenever solve() returns a route table, every customer 1..N-1 is at
\* exactly one place of it: in one route, once.
C1_Uniqueness ==
    returned = "solution" =>
        \A c \in variables : Cardinality(Places(solution, c)) = 1

C1_Witness ==
    /\ returned = "solution"
    /\ Cardinality(variables) >= 3
    /\ Cardinality(NonEmptyRoutes(solution)) >= 2

\* C2: whenever solve() returns a route table, the demands of each route
\* sum to at most vehicle_capacity.
C2_Capacity ==
    returned = "solution" =>
        \A v \in DOMAIN solution : SumDemand(solution[v]) <= vehicle_capacity

C2_Witness ==
    /\ returned = "solution"
    /\ \E v \in DOMAIN solution :
          /\ Len(solution[v]) >= 2
          /\ SumDemand(solution[v]) = vehicle_capacity
    /\ \E v \in DOMAIN solution :
          /\ solution[v] # << >>
          /\ SumDemand(solution[v]) < vehicle_capacity

\* The replay of a route from the depot, stated stop by stop: the clock on
\* reaching stop i, and the clock when service starts there.
RECURSIVE ArrivalAt(_, _)
ArrivalAt(route, i) ==
    IF i = 1 THEN 0 + distance_matrix(depot, route[1])
    ELSE Max(ArrivalAt(route, i - 1), customers[route[i - 1]].ready_time)
         + customers[route[i - 1]].service_time
         + distance_matrix(route[i - 1], route[i])

ServiceStartAt(route, i) ==
    Max(ArrivalAt(route, i), customers[route[i]].ready_time)

ReplayPasses(route) ==
    \A i \in 1..Len(route) :
        ServiceStartAt(route, i) <= customers[route[i]].due_time

\* C3: whenever solve() returns a route table, every route passes the
\* replay from the depot in its stored order: no service starts after the
\* customer's due_time, waiting for ready_time is free, service_time is
\* added after each stop.
C3_TimeWindows ==
    returned = "solution" =>
        \A v \in DOMAIN solution : ReplayPasses(solution[v])

\* A returned route in which the vehicle waits at a stop, serves there for
\* a positive time, and starts service at the last stop exactly at its
\* due_time.
C3_Witness ==
    /\ returned = "solution"
    /\ \E v \in DOMAIN solution :
          /\ Len(solution[v]) >= 2
          /\ \E i \in 1..(Len(solution[v]) - 1) :
                /\ ArrivalAt(solution[v], i) < customers[solution[v][i]].ready_time
                /\ customers[solution[v][i]].service_time > 0
          /\ ServiceStartAt(solution[v], Len(solution[v]))
                = customers[solution[v][Len(solution[v])]].due_time


\* The orders in which the customers of the set S can be visited.
VisitOrders(S) ==
    { p \in [1..Cardinality(S) -> S] :
        \A i, j \in 1..Cardinality(S) : p[i] = p[j] => i = j }

FeasibleRoute(route) ==
    SumDemand(route) <= vehicle_capacity /\ ReplayPasses(route)

\* The customers can be split into at most k ordered routes, each within
\* capacity and each passing the replay.
SolutionExists(k) ==
    \E f \in [variables -> 0..(k - 1)] :
        \A v \in 0..(k - 1) :
            \E p \in VisitOrders({ c \in variables : f[c] = v }) :
                FeasibleRoute(p)

\* The search of the attempt at cap k did not succeed (it failed, or was
\* skipped because arc consistency reported inconsistency).
TriedWithoutSuccess(k) ==
    \E i \in 1..Len(attempts) :
        attempts[i].cap = k /\ attempts[i].search \in {"failed", "not run"}

\* C4 as stated: if a solution with k vehicles exists, solve() returns no
\* solution with more than k non-empty routes.
C4_Original ==
    returned = "solution" =>
        \A k \in 1..num_vehicles :
            \/ Cardinality(NonEmptyRoutes(solution)) <= k
            \/ ~SolutionExists(k)

\* C4 (amended): solve() returns the routes of the first cap at which its
\* own search succeeds: the returned table has at most vehicle_limit
\* non-empty routes, and at every smaller cap the search was run without
\* success or skipped.  So if the search succeeds at cap k, no solution
\* with more than k non-empty routes is returned.
C4_Amended ==
    returned = "solution" =>
        \A k \in 1..num_vehicles :
            IF k >= vehicle_limit
            THEN Cardinality(NonEmptyRoutes(solution)) <= k
            ELSE TriedWithoutSuccess(k)

\* A solution with two or more routes, all in use, returned after the
\* search at cap 1 had failed although one vehicle could serve everyone.
C4_Witness ==
    /\ returned = "solution"
    /\ vehicle_limit >= 2
    /\ Cardinality(NonEmptyRoutes(solution)) = vehicle_limit
    /\ attempts[1].search = "failed"
    /\ SolutionExists(1)


\* The innermost _backtrack call has just undone a commitment.
JustUndone == pc = "loop" /\ stack # << >> /\ Top.last = "undone"

\* C5 as stated: after _backtrack undoes a commitment, the route table is
\* the one the undone value was tested against, and the undone customer is
\* in no route.
C5_UndoRestoresRoutes ==
    JustUndone =>
        /\ routes = Top.tested_routes
        /\ ~InSomeRoute(routes, Top.variable)

RECURSIVE SetDemand(_)
SetDemand(S) ==
    IF S = {} THEN 0
    ELSE LET c == CHOOSE c \in S : TRUE
         IN  customers[c].demand + SetDemand(S \ {c})

\* Some assignment of all customers to vehicles 0..k-1 keeps every
\* vehicle's total demand within capacity.
CapacityAssignable(k) ==
    \E f \in [variables -> 0..(k - 1)] :
        \A v \in 0..(k - 1) :
            SetDemand({ c \in variables : f[c] = v }) <= vehicle_capacity

LongestLeg ==
    CHOOSE d \in { distance_matrix(i, j) : i, j \in DOMAIN customers } :
        \A i, j \in DOMAIN customers : distance_matrix(i, j) <= d

RECURSIVE SetService(_)
SetService(S) ==
    IF S = {} THEN 0
    ELSE LET c == CHOOSE c \in S : TRUE
         IN  customers[c].service_time + SetService(S \ {c})

\* No clock of any route can pass this value.
ClockBound == Cardinality(variables) * LongestLeg + SetService(variables)

\* No time window can bind: nobody has to be waited for, and every
\* due_time lies beyond the clock of any route.
NoWindowCanBind ==
    \A c \in variables :
        /\ customers[c].ready_time = 0
        /\ customers[c].due_time >= ClockBound

\* C6 as stated: where no time window can bind, the search run with cap k
\* fails only when no assignment to k vehicles is within capacity, and
\* finds a solution whenever there is one.
C6_Exhaustive ==
    NoWindowCanBind =>
        \A i \in 1..Len(attempts) :
            /\ attempts[i].search = "failed" => ~CapacityAssignable(attempts[i].cap)
            /\ attempts[i].search = "found" => CapacityAssignable(attempts[i].cap)

\* C7 as stated: forward checking succeeded, the recursive call failed,
\* and the next value of the node is about to be tried: every domain is
\* what it was just before that forward-checking step.
C7_DomainsRestored ==
    (JustUndone /\ Top.fc = "ok" /\ Top.i <= Len(Top.values)) =>
        domains = Top.original_domains

\* _forward_checking has just returned False to the innermost call.
FcJustFailed == pc = "undo" /\ stack # << >> /\ Top.fc = "failed"

\* The values of the domain `dom` that pass is_consistent for neighbor n.
Survivors(n, dom) ==
    { v \in Elems(dom) : is_consistent(n, v, routes[v]) }

\* C8: when _forward_checking returns False, some unassigned variable has
\* no value left that passes is_consistent, and every domain is what it
\* was when _forward_checking was called.
C8_FailureRestoresDomains ==
    FcJustFailed =>
        /\ domains = Top.original_domains
        /\ \E n \in Unassigned : Survivors(n, Top.original_domains[n]) = {}

\* A failed sweep that had pruned the domain of one variable (without
\* emptying it) before it emptied the domain of a later one.
C8_Witness ==
    /\ FcJustFailed
    /\ \E n, m \in Unassigned :
          /\ n < m
          /\ Survivors(n, Top.original_domains[n]) # {}
          /\ Survivors(n, Top.original_domains[n]) # Elems(Top.original_domains[n])
          /\ Survivors(m, Top.original_domains[m]) = {}
          /\ \A j \in Unassigned :
                j < m => Survivors(j, Top.original_domains[j]) # {}


\* The state an attempt at cap k has to start from.
FreshFor(k, doms, table, assigned) ==
    /\ DOMAIN doms = variables
    /\ \A v \in variables :
          Len(doms[v]) = k /\ \A i \in 1..k : doms[v][i] = i - 1
    /\ DOMAIN table = 0..(k - 1)
    /\ \A v \in 0..(k - 1) : table[v] = << >>
    /\ assigned = << >>

\* What the cap loop has done so far, and what solve() returned.
C9_LoopRecord ==
    /\ Len(attempts) <= num_vehicles
    /\ \A i \in 1..Len(attempts) :
          /\ attempts[i].cap = i
          /\ attempts[i].ac = "inconsistent" => attempts[i].search = "not run"
          /\ attempts[i].search \in {"running", "failed", "found"}
                => attempts[i].ac = "consistent"
          /\ i < Len(attempts) => attempts[i].search \in {"failed", "not run"}
    /\ returned = "solution" =>
          /\ pc = "done"
          /\ attempts # << >>
          /\ attempts[Len(attempts)].search = "found"
          /\ vehicle_limit = Len(attempts)
          /\ solution = routes
          /\ DOMAIN solution = 0..(vehicle_limit - 1)
    /\ returned = "None" =>
          /\ pc = "done"
          /\ Len(attempts) = num_vehicles
          /\ \A i \in 1..Len(attempts) :
                attempts[i].search \in {"failed", "not run"}
    /\ pc = "done" => returned \in {"solution", "None"}

\* Every attempt starts from freshly reset state.
C9_FreshStart ==
    (pc = "solve" /\ pc' = "arc") =>
        /\ vehicle_limit' = Len(attempts) + 1
        /\ FreshFor(vehicle_limit', domains', routes', assignments')

\* C9: solve() tries the caps 1, 2, ... in increasing order, each from a
\* freshly reset state; the search is skipped when arc consistency reports
\* inconsistency; solve() returns the routes of the first cap at which arc
\* consistency and the search both succeed, trying no larger cap, and
\* returns None exactly when every cap up to the fleet size has failed.
C9_CapLoop == [](C9_LoopRecord) /\ [][C9_FreshStart]_vars

\* A solution returned at cap 2 of a larger fleet, after the search at
\* cap 1 had failed and left a customer behind in its route table.
C9_Witness ==
    /\ returned = "solution"
    /\ vehicle_limit = 2
    /\ num_vehicles > 2
    /\ attempts[1].search = "failed"

\* The customer cannot be served even as the only stop of an empty route.
UnservableAlone(c) ==
    \/ customers[c].due_time < distance_matrix(depot, c)
    \/ customers[c].demand > vehicle_capacity

\* C10: with a customer that cannot be served alone, solve() never returns
\* a route table; it runs on to its end and returns None there.
C10_GlobalInfeasibility ==
    (\E c \in variables : UnservableAlone(c)) =>
        /\ returned # "solution"
        /\ pc = "done" => returned = "None"
        /\ pc # "done" => ENABLED Next

\* The single-customer instance (empty worklist) with a fleet of several
\* vehicles: every cap was searched, and solve() returned None.
C10_Witness ==
    /\ pc = "done"
    /\ returned = "None"
    /\ Cardinality(variables) = 1
    /\ customers[1].due_time < distance_matrix(depot, 1)
    /\ customers[1].demand <= vehicle_capacity
    /\ num_vehicles >= 2
    /\ \A i \in 1..num_vehicles :
          attempts[i].ac = "consistent" /\ attempts[i].search = "failed"

\* C11: a second call of solve(), on the same solver object or on a fresh
\* solver of the same input, returns what the first call returned: None both
\* times, or the same route table (same customers, same order, same vehicle
\* indices).
C11_SameOutcome ==
    (pc = "done" /\ earlier_results # << >>) =>
        /\ returned = earlier_results[1].returned
        /\ returned = "solution" => solution = earlier_results[1].solution

\* The second call on the same object started from a route table that still
\* held customers and from pruned domains, and it returned a route table.
C11_Witness ==
    /\ pc = "done"
    /\ earlier_results # << >>
    /\ earlier_results[1].solver = "same"
    /\ earlier_results[1].returned = "solution"
    /\ returned = "solution"
    /\ Len(attempts) >= 2
    /\ \E v \in DOMAIN solution : Len(solution[v]) >= 2

\* The sum of f over its finite domain.
RECURSIVE SumOf(_)
SumOf(f) ==
    IF DOMAIN f = {} THEN 0
    ELSE LET d == CHOOSE e \in DOMAIN f : TRUE
         IN f[d] + SumOf([e \in DOMAIN f \ {d} |-> f[e]])

\* The depot-to-depot tour of a route, and its length leg by leg.
Tour(route) == << depot >> \o route \o << depot >>

TourLength(tour) ==
    SumOf([i \in 1..(Len(tour) - 1) |-> distance_matrix(tour[i], tour[i + 1])])

\* C12: once solve() has returned a solution, the solver's own route table
\* is that solution; the vehicle count of format_solution() is the number of
\* its non-empty routes and the total distance is the sum, over the non-empty
\* routes, of the depot-to-depot tour length; empty routes add nothing.
C12_Metrics ==
    (pc = "done" /\ returned = "solution") =>
        /\ routes = solution
        /\ format_solution.num_vehicles = Cardinality(NonEmptyRoutes(solution))
        /\ format_solution.total_distance =
              SumOf([v \in NonEmptyRoutes(solution) |-> TourLength(Tour(solution[v]))])
        /\ \A i \in 1..Len(format_solution.routes) :
              LET line == format_solution.routes[i]
              IN /\ line.route - 1 \in NonEmptyRoutes(solution)
                 /\ line.stops = Tour(solution[line.route - 1])

\* A returned table with a route of two stops at different places: its
\* tour has a leg out, a leg between the customers and a leg back.
C12_Witness ==
    /\ pc = "done"
    /\ returned = "solution"
    /\ \E v \in DOMAIN routes :
          /\ Len(routes[v]) >= 2
          /\ distance_matrix(routes[v][1], routes[v][2]) > 0
    /\ format_solution.num_vehicles = 1
    /\ format_solution.total_distance = 4

\* The three conditions of is_consistent, each stated on its own.
InNoRoute(variable) == Places(routes, variable) = {}

FitsCapacity(variable, route) ==
    SumOf([i \in 1..Len(route) |-> customers[route[i]].demand])
        + customers[variable].demand <= vehicle_capacity

KeepsTimeWindows(variable, route) == ReplayPasses(Append(route, variable))

\* is_consistent's verdict on every customer and every route of the table.
C13_Verdict ==
    \A variable \in variables : \A value \in DOMAIN routes :
        is_consistent(variable, value, routes[value])
            <=> /\ InNoRoute(variable)
                /\ FitsCapacity(variable, routes[value])
                /\ KeepsTimeWindows(variable, routes[value])

\* A step of _backtrack() that is the call of is_consistent and nothing
\* else (the value is rejected) leaves the fields alone; after a True verdict
\* the fields change by the commit only.
C13_NoEffect ==
    /\ BtReject => UNCHANGED << routes, domains, assignments >>
    /\ BtCommit =>
          /\ routes' = Committed(routes, Value, Top.variable)
          /\ assignments' = (assignments @@ (Top.variable :> Value))
          /\ UNCHANGED domains

\* C13: is_consistent(variable, value, route) is True exactly when the
\* variable is in no route of the current table (whatever the vehicle),
\* the demand of the route plus the variable's is at most the capacity, and
\* route + [variable] passes the time-window replay (clock from 0, raised to
\* ready_time, rejected only when strictly later than due_time, service_time
\* added after each stop); it changes neither routes, domains nor assignment.
C13_IsConsistent == [](C13_Verdict) /\ [][C13_NoEffect]_vars

\* is_consistent is asked about a customer that sits in the route of another
\* vehicle and would fit the target route by capacity and by time: False.
C13_Witness ==
    /\ pc = "loop"
    /\ Top.i <= Len(Top.values)
    /\ Top.variable \notin Elems(routes[Value])
    /\ ~InNoRoute(Top.variable)
    /\ FitsCapacity(Top.variable, routes[Value])
    /\ KeepsTimeWindows(Top.variable, routes[Value])
    /\ ~is_consistent(Top.variable, Value, routes[Value])

\* _backtrack has just been entered by the recursive call of line 125:
\* the forward-checking step of the caller's frame succeeded.
NonRootEntry == pc = "bt" /\ stack # << >> /\ Top.fc = "ok"

\* C14: after a forward-checking step that succeeds, the domain of every
\* unassigned customer holds exactly the vehicles of its previous domain
\* that pass is_consistent for it on the current routes, none of these
\* domains is empty, and the domains of assigned customers are as before;
\* so at the entry of every search node below the root every value of an
\* unassigned customer's domain is feasible against the current routes.
C14_ForwardChecking ==
    (pc = "bt" /\ stack # << >>) =>
        /\ Top.fc = "ok"
        /\ \A n \in Unassigned :
              /\ Elems(domains[n]) = Survivors(n, Top.original_domains[n])
              /\ domains[n] # << >>
              /\ \A v \in Elems(domains[n]) :
                    /\ InNoRoute(n)
                    /\ FitsCapacity(n, routes[v])
                    /\ KeepsTimeWindows(n, routes[v])
        /\ \A n \in DOMAIN assignments : domains[n] = Top.original_domains[n]

\* A successful step that pruned the domain of an unassigned customer and
\* left the committed customer's domain alone.
C14_Witness ==
    /\ NonRootEntry
    /\ \E n \in Unassigned :
          Elems(domains[n]) # Elems(Top.original_domains[n])
    /\ Len(domains[Top.variable]) >= 2

\* _select_unassigned_variable has just returned to the node of the top
\* frame: nothing has been tried there yet.
JustSelected == pc = "loop" /\ Top.i = 1 /\ Top.last = "none"

\* C15: the customer _select_unassigned_variable returns is unassigned, no
\* unassigned customer has a smaller domain, and none of those with a domain
\* of the same size has a lower index; when it is about to be called some
\* customer is unassigned.
C15_MRV ==
    /\ JustSelected =>
          /\ Top.variable \in Unassigned
          /\ \A w \in Unassigned :
                /\ Len(domains[Top.variable]) <= Len(domains[w])
                /\ Len(domains[Top.variable]) = Len(domains[w])
                      => Top.variable <= w
    /\ (pc = "bt" /\ ~Complete) => Unassigned # {}

\* The selected customer is not the unassigned customer of lowest index: a
\* customer before it has a larger domain.
C15_Witness ==
    /\ JustSelected
    /\ \E w \in Unassigned :
          /\ w < Top.variable
          /\ Len(domains[w]) > Len(domains[Top.variable])
    /\ \E w \in Unassigned :
          /\ w > Top.variable
          /\ Len(domains[w]) = Len(domains[Top.variable])

\* The number of unassigned customers other than `variable` whose domain
\* still holds the vehicle.
OthersHolding(variable, vehicle) ==
    Cardinality({ n \in Unassigned \ {variable} :
                    vehicle \in Elems(domains[n]) })

\* C16: the vehicles of the selected customer's domain are tried in
\* ascending order of the number of other unassigned customers whose domain
\* holds the vehicle, and vehicles of equal number in ascending index.
C16_LCVOrder ==
    JustSelected =>
        /\ Elems(Top.values) = Elems(domains[Top.variable])
        /\ Len(Top.values) = Len(domains[Top.variable])
        /\ \A i, j \in 1..Len(Top.values) :
              i < j =>
                \/ OthersHolding(Top.variable, Top.values[i])
                     < OthersHolding(Top.variable, Top.values[j])
                \/ /\ OthersHolding(Top.variable, Top.values[i])
                        = OthersHolding(Top.variable, Top.values[j])
                   /\ Top.values[i] < Top.values[j]

\* The order differs from the order of the vehicle indices: a vehicle of
\* higher index is held by fewer other customers and is tried first.
C16_Witness ==
    /\ JustSelected
    /\ Len(Top.values) >= 2
    /\ Top.values[1] > Top.values[2]
    /\ OthersHolding(Top.variable, Top.values[1])
         < OthersHolding(Top.variable, Top.values[2])

\* C17: solve() terminates: every run reaches the return of solve(), with a
\* solution or with None (the worklist of every arc-consistency pass is
\* worked off, every _backtrack call returns, the cap loop ends).
C17_Terminates == <>(pc = "done" /\ returned \in {"solution", "None"})

\* solve() has returned after a run through several caps, each with an
\* arc-consistency pass over a worklist and a search over three customers
\* or more that failed.
C17_Witness ==
    /\ pc = "done"
    /\ returned = "None"
    /\ Cardinality(variables) >= 3
    /\ num_vehicles >= 2
    /\ Len(attempts) = num_vehicles
    /\ \A i \in 1..Len(attempts) :
          attempts[i].ac = "consistent" /\ attempts[i].search = "failed"

\* The customer cannot be the only stop of a route: too heavy for a vehicle,
\* or service there cannot start by its due_time.
InfeasibleAlone(c) ==
    \/ customers[c].demand > vehicle_capacity
    \/ Max(distance_matrix(depot, c), customers[c].ready_time)
         > customers[c].due_time

IsSuffix(s, t) ==
    Len(s) <= Len(t) /\ s = SubSeq(t, Len(t) - Len(s) + 1, Len(t))

\* The pass at the current cap has just reported inconsistency.
ArcJustFailed ==
    /\ pc = "solve"
    /\ attempts # << >>
    /\ attempts[Len(attempts)].ac = "inconsistent"

\* C18: the arc-consistency pass of solve() is all-or-nothing.  While it
\* runs and when it reports consistency every domain is the full 0..k-1
\* and the worklist is a rest of the initial one (nothing pruned, nothing
\* re-enqueued); it reports inconsistency exactly when there are two
\* customers or more and one of them is infeasible alone, and then it has
\* emptied the whole domain of such a customer and touched no other.
C18_AllOrNothing ==
    /\ (pc = "arc" \/ (pc = "bt" /\ stack = << >>)) =>
          /\ \A c \in variables : domains[c] = Range(vehicle_limit)
          /\ IsSuffix(queue, InitialQueue)
    /\ \A i \in 1..Len(attempts) :
          /\ attempts[i].ac = "inconsistent" =>
                /\ Cardinality(variables) >= 2
                /\ \E c \in variables : InfeasibleAlone(c)
          /\ attempts[i].ac = "consistent" =>
                \/ Cardinality(variables) < 2
                \/ \A c \in variables : ~InfeasibleAlone(c)
    /\ ArcJustFailed =>
          \E c \in variables :
              /\ InfeasibleAlone(c)
              /\ domains[c] = << >>
              /\ \A d \in variables \ {c} : domains[d] = Range(vehicle_limit)

\* The pass at a cap of two vehicles or more has emptied the domain of the
\* second customer at once; the first one, feasible alone, kept all values.
C18_Witness ==
    /\ ArcJustFailed
    /\ vehicle_limit >= 2
    /\ domains[1] = Range(vehicle_limit)
    /\ domains[2] = << >>
    /\ ~InfeasibleAlone(1)

\* The vehicle the search node of frame f stands at.
FrameValue(f) == f.values[f.i]

\* The customers the enclosing search nodes committed to vehicle v, from the
\* outermost node inwards.
RECURSIVE CommitOrder(_, _)
CommitOrder(frames, v) ==
    IF frames = << >> THEN << >>
    ELSE (IF FrameValue(Head(frames)) = v
          THEN << Head(frames).variable >> ELSE << >>)
             \o CommitOrder(Tail(frames), v)

\* C19: whenever _backtrack is entered, a customer is in the route of
\* vehicle v exactly when the assignment maps it to v, no customer is in two
\* routes (or twice in one), each route lists its customers in the order the
\* enclosing search nodes committed them, and the number of assigned
\* customers is the recursion depth; solve() returns a table only when that
\* number is the number of customers.
C19_RoutesAgree ==
    /\ pc = "bt" =>
          /\ \A c \in variables : \A v \in DOMAIN routes :
                c \in Elems(routes[v]) <=>
                    (c \in DOMAIN assignments /\ assignments[c] = v)
          /\ \A c \in variables : Cardinality(Places(routes, c)) <= 1
          /\ \A v \in DOMAIN routes : routes[v] = CommitOrder(stack, v)
          /\ Cardinality(DOMAIN assignments) = Len(stack)
    /\ returned = "solution" =>
          Cardinality(DOMAIN assignments) = Cardinality(variables)

\* An entry three calls or more below the root, with a route whose
\* customers are not in index order: the later one was committed first.
C19_Witness ==
    /\ pc = "bt"
    /\ Len(stack) >= 3
    /\ \E v \in DOMAIN routes :
          /\ Len(routes[v]) >= 2
          /\ routes[v][1] > routes[v][2]

=============================================================================
